---- MODULE Spec2Model ----
(***************************************************************************)
(* One invocation of scripts/performance/llm/finetune_llama31_405b.py:     *)
(* the __main__ block (lines 105-152) and override_recipe_configs (lines   *)
(* 45-102).  The collaborators the script calls (argument parser, sanity   *)
(* check, layout lookup, recipe and executor factories, the Experiment     *)
(* object) are represented by the values handed to them and by their two   *)
(* possible outcomes: they return, or they raise and the script stops.     *)
(***************************************************************************)
EXTENDS Integers, Sequences, FiniteSets, TLC

VARIABLES pc, err, stages, args, layout, baseRecipe, recipe, packCheck,
          exp_name, executor, plugins, exp

vars == <<pc, err, stages, args, layout, baseRecipe, recipe, packCheck,
          exp_name, executor, plugins, exp>>

------------------------------------------------------------------------------
(* Bounds of the explored inputs *)
MaxNodes == 2
MaxPP == 2

(* Module-level values of the script *)
HF_MODEL_URI == "meta-llama/Llama-3.1-405B"
SKIP_IMPORT == FALSE
ScriptStem == "finetune_llama31_405b"
NcclChunkSize == 2097152
NsysStartStep == 5
NsysEndStep == 6

None == "None"

(* Inputs the parser can deliver *)
FinetuningChoices == {"sft", "lora"}
DtypeChoices == {"bf16", "fp8", "FP8"}
TokenChoices == {None, "hf_tok"}
GpusPerNodeChoices == {8}
MaxStepsChoices == {100}

ArgsSpace ==
    [finetuning : FinetuningChoices, compute_dtype : DtypeChoices,
     hf_token : TokenChoices, dryrun : BOOLEAN, enable_nsys : BOOLEAN,
     gpus_per_node : GpusPerNodeChoices, max_steps : MaxStepsChoices]

(* Layouts get_user_configs can return *)
LayoutSpace ==
    [num_nodes : 1..MaxNodes, mbs : {1}, gbs : {32}, tp_size : {4, 8},
     pp_size : 1..MaxPP, cp_size : {1, 2}, vp_size : {3}, ep_size : {5, 6},
     enable_cuda_graphs : {FALSE}]

(* Recipes finetune_recipe can return, as far as the script reads or writes them *)
DataClasses == {"SquadDataModule", "OtherDataModule"}

NoArgs ==
    [finetuning |-> None, compute_dtype |-> None, hf_token |-> None,
     dryrun |-> FALSE, enable_nsys |-> FALSE, gpus_per_node |-> 0, max_steps |-> 0]

NoLayout ==
    [num_nodes |-> 0, mbs |-> 0, gbs |-> 0, tp_size |-> 0, pp_size |-> 0,
     cp_size |-> 0, vp_size |-> 0, ep_size |-> 0, enable_cuda_graphs |-> FALSE]

NoPerf ==
    [scheme |-> None, num_nodes |-> 0, gpus_per_node |-> 0, mbs |-> 0, gbs |-> 0,
     max_steps |-> 0, tp_size |-> 0, pp_size |-> 0, cp_size |-> 0, vp_size |-> 0,
     ep_size |-> 0, enable_cuda_graphs |-> FALSE]

NoData == [cls |-> None, tokenizer |-> <<>>, force_redownload |-> FALSE]

NoPackCheck == [called |-> FALSE, data |-> NoData, result |-> FALSE]

NoPrecision == [kind |-> None, grad_reduce_in_fp32 |-> FALSE]

NoRecipe ==
    [peft_scheme |-> None, performance_mode |-> FALSE, perf |-> NoPerf,
     logging |-> None, data |-> NoData, plugins |-> NoPrecision]

NoExecutor == [num_nodes |-> 0, gpus_per_node |-> 0, hf_token |-> None]

NoExp == [opened |-> FALSE, name |-> <<>>, calls |-> <<>>]

------------------------------------------------------------------------------
(* str.lower() on the precision strings the parser can deliver *)
Lower(s) ==
    CASE s = "FP8" -> "fp8"
      [] s = "BF16" -> "bf16"
      [] OTHER -> s

(* line 62 *)
FinetuningScheme(a) == IF a.finetuning = "sft" THEN "none" ELSE a.finetuning

(* line 63: the base recipe, with the requested scheme *)
FinetuneRecipe(scheme, base) ==
    [base EXCEPT !.peft_scheme = scheme, !.performance_mode = TRUE]

(* variant: tp_size and pp_size change places in the positional call *)
SetPrimaryPerfConfigsSwapped(r, scheme, a, l) ==
    [r EXCEPT !.perf =
        [scheme |-> scheme, num_nodes |-> l.num_nodes,
         gpus_per_node |-> a.gpus_per_node, mbs |-> l.mbs, gbs |-> l.gbs,
         max_steps |-> a.max_steps, tp_size |-> l.pp_size, pp_size |-> l.tp_size,
         cp_size |-> l.cp_size, vp_size |-> l.vp_size, ep_size |-> l.ep_size,
         enable_cuda_graphs |-> l.enable_cuda_graphs]]

(* lines 65-79: the positional arguments handed to set_primary_perf_configs *)
SetPrimaryPerfConfigs(r, scheme, a, l) ==
    [r EXCEPT !.perf =
        [scheme |-> scheme, num_nodes |-> l.num_nodes,
         gpus_per_node |-> a.gpus_per_node, mbs |-> l.mbs, gbs |-> l.gbs,
         max_steps |-> a.max_steps, tp_size |-> l.tp_size, pp_size |-> l.pp_size,
         cp_size |-> l.cp_size, vp_size |-> l.vp_size, ep_size |-> l.ep_size,
         enable_cuda_graphs |-> l.enable_cuda_graphs]]

(* lines 80-89 *)
SetExpLoggingConfigs(r, scheme) ==
    [r EXCEPT !.logging = <<scheme, "llm", "llama3">>]

(* line 92 *)
SetTokenizer(r) == [r EXCEPT !.data.tokenizer = <<"hf_tokenizer", HF_MODEL_URI>>]

(* variant: the metadata check runs before the tokenizer is set *)
DataOverrideCheckFirst(r, metaExists) ==
    LET isSquad == r.data.cls = "SquadDataModule"
        r1 == SetTokenizer(r)
    IN  [recipe |-> IF isSquad /\ ~metaExists
                    THEN [r1 EXCEPT !.data.force_redownload = TRUE]
                    ELSE r1,
         check  |-> IF isSquad
                    THEN [called |-> TRUE, data |-> r.data, result |-> metaExists]
                    ELSE NoPackCheck]

(* lines 92-95: the recipe after the data overrides, and what the call of
   isfile_train_pack_metadata saw: it is made only when the left operand of
   "and" is true, with recipe.data as it is at that point *)
DataOverride(r, metaExists) ==
    LET r1 == SetTokenizer(r)
        isSquad == r1.data.cls = "SquadDataModule"
    IN  [recipe |-> IF isSquad /\ ~metaExists
                    THEN [r1 EXCEPT !.data.force_redownload = TRUE]
                    ELSE r1,
         check  |-> IF isSquad
                    THEN [called |-> TRUE, data |-> r1.data, result |-> metaExists]
                    ELSE NoPackCheck]

(* variant: line 100 is missing, the factory's own setting stays *)
PrecisionOverrideKeepsFactory(r, a, factoryGrad) ==
    IF Lower(a.compute_dtype) = "fp8"
    THEN [r EXCEPT !.plugins =
            [kind |-> "bf16_with_fp8_mixed", grad_reduce_in_fp32 |-> factoryGrad]]
    ELSE r

(* lines 98-100; factoryGrad is what bf16_with_fp8_mixed() itself sets *)
PrecisionOverride(r, a, factoryGrad) ==
    IF Lower(a.compute_dtype) = "fp8"
    THEN LET p == [kind |-> "bf16_with_fp8_mixed", grad_reduce_in_fp32 |-> factoryGrad]
         IN  [r EXCEPT !.plugins = [p EXCEPT !.grad_reduce_in_fp32 = FALSE]]
    ELSE r

(* line 116 *)
ExpConfig(l) ==
    <<l.num_nodes, "nodes_tp", l.tp_size, "_pp", l.pp_size, "_cp", l.cp_size,
      "_vp", l.vp_size, "_", l.mbs, "mbs_", l.gbs, "gbs">>

(* variant: the name is built from the lower-cased precision *)
ExpNameLowered(a, l) ==
    <<a.finetuning, "_", ScriptStem, "_", Lower(a.compute_dtype), "_">> \o ExpConfig(l)

(* line 117 *)
ExpName(a, l) ==
    <<a.finetuning, "_", ScriptStem, "_", a.compute_dtype, "_">> \o ExpConfig(l)

(* lines 119-132 *)
SlurmExecutor(a, l) ==
    [num_nodes |-> l.num_nodes, gpus_per_node |-> a.gpus_per_node,
     hf_token |-> a.hf_token]

(* variant: the comparison is >= instead of > *)
PerfEnvPluginOffByOne(l) ==
    [plugin |-> "PerfEnvPlugin", enable_vboost |-> TRUE,
     nccl_pp_comm_chunksize |-> IF l.pp_size >= 1 THEN <<NcclChunkSize>> ELSE <<>>]

(* line 134; an optional value is a sequence of length 0 (None) or 1 *)
PerfEnvPlugin(l) ==
    [plugin |-> "PerfEnvPlugin", enable_vboost |-> TRUE,
     nccl_pp_comm_chunksize |-> IF l.pp_size > 1 THEN <<NcclChunkSize>> ELSE <<>>]

(* line 136 *)
NsysPlugin ==
    [plugin |-> "NsysPlugin", start_step |-> NsysStartStep, end_step |-> NsysEndStep]

(* variant: the profiler plugin is put in front of the list *)
PluginsNsysFirst(a, l) ==
    IF a.enable_nsys THEN <<NsysPlugin>> \o <<PerfEnvPlugin(l)>>
    ELSE <<PerfEnvPlugin(l)>>

(* lines 134-136 *)
Plugins(a, l) ==
    IF a.enable_nsys THEN <<PerfEnvPlugin(l)>> \o <<NsysPlugin>>
    ELSE <<PerfEnvPlugin(l)>>

(* line 141 *)
ImportCall(ex) ==
    [op |-> "add", job |-> "import_ckpt", executor |-> ex,
     source |-> <<"hf://", HF_MODEL_URI>>]

(* lines 142-147 *)
TrainCall(r, ex, name, pl) ==
    [op |-> "add", job |-> "train", recipe |-> r, executor |-> ex,
     name |-> name, plugins |-> pl]

(* variant: the test of the dryrun flag is inverted *)
LaunchCallInverted(a) ==
    IF a.dryrun
    THEN [op |-> "run", job |-> None, sequential |-> TRUE, detach |-> TRUE]
    ELSE [op |-> "dryrun", job |-> None]

(* lines 149-152 *)
LaunchCall(a) ==
    IF ~a.dryrun
    THEN [op |-> "run", job |-> None, sequential |-> TRUE, detach |-> TRUE]
    ELSE [op |-> "dryrun", job |-> None]

------------------------------------------------------------------------------
Init ==
    /\ pc = "parse"
    /\ err = None
    /\ stages = <<>>
    /\ args = NoArgs
    /\ layout = NoLayout
    /\ baseRecipe = NoRecipe
    /\ recipe = NoRecipe
    /\ packCheck = NoPackCheck
    /\ exp_name = <<>>
    /\ executor = NoExecutor
    /\ plugins = <<>>
    /\ exp = NoExp

(* a collaborator raises: the exception is not caught, the script ends *)
Raise(kind) ==
    /\ pc' = "failed"
    /\ err' = kind
    /\ UNCHANGED <<stages, args, layout, baseRecipe, recipe, packCheck,
                   exp_name, executor, plugins, exp>>

(* line 106 *)
Parse ==
    /\ pc = "parse"
    /\ \/ \E a \in ArgsSpace :
            /\ args' = a
            /\ pc' = "validate"
            /\ stages' = Append(stages, "PARSED")
            /\ UNCHANGED <<err, layout, baseRecipe, recipe, packCheck,
                           exp_name, executor, plugins, exp>>
       \/ Raise("SystemExit")

(* variant: a failed sanity check is swallowed and the script goes on *)
ValidateSwallowsError ==
    /\ pc = "validate"
    /\ \/ /\ pc' = "resolve"
          /\ stages' = Append(stages, "VALIDATED")
          /\ UNCHANGED <<err, args, layout, baseRecipe, recipe, packCheck,
                         exp_name, executor, plugins, exp>>
       \/ /\ pc' = "resolve"
          /\ err' = "Error"
          /\ UNCHANGED <<stages, args, layout, baseRecipe, recipe, packCheck,
                         exp_name, executor, plugins, exp>>

(* line 107 *)
Validate ==
    /\ pc = "validate"
    /\ \/ /\ pc' = "resolve"
          /\ stages' = Append(stages, "VALIDATED")
          /\ UNCHANGED <<err, args, layout, baseRecipe, recipe, packCheck,
                         exp_name, executor, plugins, exp>>
       \/ Raise("Error")

(* lines 109-110 *)
ResolveLayout ==
    /\ pc = "resolve"
    /\ \/ \E l \in LayoutSpace :
            /\ layout' = l
            /\ pc' = "recipe"
            /\ stages' = Append(stages, "LAYOUT_RESOLVED")
            /\ UNCHANGED <<err, args, baseRecipe, recipe, packCheck,
                           exp_name, executor, plugins, exp>>
       \/ Raise("Error")

(* lines 112-114 with 62-102 *)
OverrideRecipeConfigs ==
    /\ pc = "recipe"
    /\ \/ \E cls \in DataClasses, force \in BOOLEAN, grad \in BOOLEAN,
             metaExists \in BOOLEAN, factoryGrad \in BOOLEAN :
            LET base == [NoRecipe EXCEPT
                            !.data = [cls |-> cls, tokenizer |-> <<"recipe_default">>,
                                      force_redownload |-> force],
                            !.plugins = [kind |-> "bf16_mixed",
                                         grad_reduce_in_fp32 |-> grad]]
                scheme == FinetuningScheme(args)
                r0 == FinetuneRecipe(scheme, base)
                r1 == SetPrimaryPerfConfigs(r0, scheme, args, layout)
                r2 == SetExpLoggingConfigs(r1, scheme)
                d == DataOverride(r2, metaExists)
                r4 == PrecisionOverride(d.recipe, args, factoryGrad)
            IN  /\ baseRecipe' = r0
                /\ packCheck' = d.check
                /\ recipe' = r4
                /\ pc' = "name"
                /\ stages' = Append(stages, "RECIPE_BUILT")
                /\ UNCHANGED <<err, args, layout, exp_name, executor, plugins, exp>>
       \/ Raise("Error")

(* lines 116-117 *)
BuildName ==
    /\ pc = "name"
    /\ exp_name' = ExpName(args, layout)
    /\ pc' = "executor"
    /\ UNCHANGED <<err, stages, args, layout, baseRecipe, recipe, packCheck,
                   executor, plugins, exp>>

(* lines 119-132 *)
BuildExecutor ==
    /\ pc = "executor"
    /\ \/ /\ executor' = SlurmExecutor(args, layout)
          /\ pc' = "plugins"
          /\ stages' = Append(stages, "EXECUTOR_BUILT")
          /\ UNCHANGED <<err, args, layout, baseRecipe, recipe, packCheck,
                         exp_name, plugins, exp>>
       \/ Raise("Error")

(* lines 134-136 *)
BuildPlugins ==
    /\ pc = "plugins"
    /\ plugins' = Plugins(args, layout)
    /\ pc' = "open"
    /\ UNCHANGED <<err, stages, args, layout, baseRecipe, recipe, packCheck,
                   exp_name, executor, exp>>

(* line 138 *)
OpenExperiment ==
    /\ pc = "open"
    /\ \/ /\ exp' = [opened |-> TRUE, name |-> exp_name, calls |-> <<>>]
          /\ pc' = "import"
          /\ UNCHANGED <<err, stages, args, layout, baseRecipe, recipe,
                         packCheck, exp_name, executor, plugins>>
       \/ Raise("Error")

(* variant: the import job is never added, as if SKIP_IMPORT were set *)
AddImportSkipped ==
    /\ pc = "import"
    /\ IF args.hf_token = None /\ ~SKIP_IMPORT
       THEN Raise("AssertionError")
       ELSE /\ pc' = "add"
            /\ UNCHANGED <<err, stages, args, layout, baseRecipe, recipe,
                           packCheck, exp_name, executor, plugins, exp>>

(* variant: line 140 is missing, the import job is added without a token *)
AddImportUnchecked ==
    /\ pc = "import"
    /\ \/ /\ exp' = [exp EXCEPT !.calls = Append(@, ImportCall(executor))]
          /\ pc' = "add"
          /\ UNCHANGED <<err, stages, args, layout, baseRecipe, recipe,
                         packCheck, exp_name, executor, plugins>>
       \/ Raise("Error")

(* lines 139-141 *)
AddImport ==
    /\ pc = "import"
    /\ IF SKIP_IMPORT
       THEN /\ pc' = "add"
            /\ UNCHANGED <<err, stages, args, layout, baseRecipe, recipe,
                           packCheck, exp_name, executor, plugins, exp>>
       ELSE IF args.hf_token = None
            THEN Raise("AssertionError")
            ELSE \/ /\ exp' = [exp EXCEPT !.calls = Append(@, ImportCall(executor))]
                    /\ pc' = "add"
                    /\ UNCHANGED <<err, stages, args, layout, baseRecipe, recipe,
                                   packCheck, exp_name, executor, plugins>>
                 \/ Raise("Error")

(* lines 142-147 *)
AddTraining ==
    /\ pc = "add"
    /\ \/ /\ exp' = [exp EXCEPT !.calls =
                        Append(@, TrainCall(recipe, executor, exp_name, plugins))]
          /\ pc' = "launch"
          /\ UNCHANGED <<err, stages, args, layout, baseRecipe, recipe,
                         packCheck, exp_name, executor, plugins>>
       \/ Raise("Error")

(* lines 149-152 *)
Launch ==
    /\ pc = "launch"
    /\ \/ /\ exp' = [exp EXCEPT !.calls = Append(@, LaunchCall(args))]
          /\ pc' = "done"
          /\ stages' = Append(stages, IF args.dryrun THEN "DRYRUN_ONLY" ELSE "SUBMITTED")
          /\ UNCHANGED <<err, args, layout, baseRecipe, recipe, packCheck,
                         exp_name, executor, plugins>>
       \/ Raise("Error")

Next ==
    \/ Parse
    \/ Validate
    \/ ResolveLayout
    \/ OverrideRecipeConfigs
    \/ BuildName
    \/ BuildExecutor
    \/ BuildPlugins
    \/ OpenExperiment
    \/ AddImport
    \/ AddTraining
    \/ Launch

Spec == Init /\ [][Next]_vars

------------------------------------------------------------------------------
(* Vocabulary of the properties *)
Reached(stage) == \E i \in DOMAIN stages : stages[i] = stage

Calls == exp.calls

IsImportAdd(c) == c.op = "add" /\ c.job = "import_ckpt"

IsTrainAdd(c) == c.op = "add" /\ c.job = "train"

IsLaunch(c) == c.op \in {"run", "dryrun"}

LaunchIdx == {i \in DOMAIN Calls : IsLaunch(Calls[i])}

StageOrderRun ==
    <<"PARSED", "VALIDATED", "LAYOUT_RESOLVED", "RECIPE_BUILT", "EXECUTOR_BUILT",
      "SUBMITTED">>

StageOrderDry ==
    <<"PARSED", "VALIDATED", "LAYOUT_RESOLVED", "RECIPE_BUILT", "EXECUTOR_BUILT",
      "DRYRUN_ONLY">>

IsPrefix(s, t) == Len(s) <= Len(t) /\ \A i \in DOMAIN s : s[i] = t[i]

------------------------------------------------------------------------------
(* C1: with SKIP_IMPORT false, every training-job add is preceded by the
   checkpoint-import add, every exp.run / exp.dryrun call comes after both
   adds, and a finished invocation has made exactly import, training, launch
   in that order. *)
C1_ImportBeforeTraining ==
    ~SKIP_IMPORT =>
        /\ \A i \in DOMAIN Calls :
              IsTrainAdd(Calls[i]) => \E j \in 1..(i - 1) : IsImportAdd(Calls[j])
        /\ \A i \in DOMAIN Calls :
              IsLaunch(Calls[i]) =>
                 \E j \in 1..(i - 1), k \in 1..(i - 1) :
                    j < k /\ IsImportAdd(Calls[j]) /\ IsTrainAdd(Calls[k])
        /\ pc = "done" =>
              /\ Len(Calls) = 3
              /\ IsImportAdd(Calls[1]) /\ IsTrainAdd(Calls[2]) /\ IsLaunch(Calls[3])

C1_Witness ==
    /\ ~SKIP_IMPORT
    /\ pc = "done"
    /\ IsImportAdd(Calls[1]) /\ IsTrainAdd(Calls[2]) /\ Calls[3].op = "run"

(* C2: with SKIP_IMPORT false and no hf_token, nothing is ever added to the
   experiment and neither exp.run nor exp.dryrun is called, whatever the
   dryrun flag; once the experiment is open the only way on is the
   AssertionError of line 140. *)
C2_NoTokenNothingEnqueued ==
    (~SKIP_IMPORT /\ Reached("PARSED") /\ args.hf_token = None) =>
        /\ Calls = <<>>
        /\ pc \notin {"add", "launch", "done"}
        /\ (exp.opened /\ pc # "import") => (pc = "failed" /\ err = "AssertionError")

C2_Witness ==
    /\ ~SKIP_IMPORT
    /\ args.hf_token = None
    /\ args.dryrun
    /\ exp.opened
    /\ pc = "failed"
    /\ err = "AssertionError"
    /\ Calls = <<>>

(* C3 as stated: with compute_dtype "fp8" (any case) the built recipe has the
   mixed 16/8-bit precision plugin with grad_reduce_in_fp32 true. *)
C3_Original ==
    (Reached("RECIPE_BUILT") /\ Lower(args.compute_dtype) = "fp8") =>
        /\ recipe.plugins.kind = "bf16_with_fp8_mixed"
        /\ recipe.plugins.grad_reduce_in_fp32 = TRUE

(* C3 amended: with compute_dtype "fp8" (any case) the built recipe has the
   mixed 16/8-bit precision plugin with grad_reduce_in_fp32 false, whatever
   the base recipe's plugin and the factory had; with any other precision the
   base recipe's plugin is kept. *)
C3_Fp8GradReduceOff ==
    Reached("RECIPE_BUILT") =>
        IF Lower(args.compute_dtype) = "fp8"
        THEN /\ recipe.plugins.kind = "bf16_with_fp8_mixed"
             /\ recipe.plugins.grad_reduce_in_fp32 = FALSE
        ELSE recipe.plugins = baseRecipe.plugins

C3_Witness ==
    /\ Reached("RECIPE_BUILT")
    /\ args.compute_dtype = "FP8"
    /\ baseRecipe.plugins.grad_reduce_in_fp32 = TRUE
    /\ recipe.plugins.kind = "bf16_with_fp8_mixed"
    /\ recipe.plugins.grad_reduce_in_fp32 = FALSE

(* C4: with dryrun set exp.run is never called, without it exp.dryrun is
   never called and exp.run gets sequential=True, detach=True; at most one
   launch call is ever made and a finished invocation has made exactly one,
   as its last call. *)
C4_RunXorDryrun ==
    /\ Cardinality(LaunchIdx) <= 1
    /\ \A i \in LaunchIdx :
          IF args.dryrun
          THEN Calls[i].op = "dryrun"
          ELSE /\ Calls[i].op = "run"
               /\ Calls[i].sequential = TRUE
               /\ Calls[i].detach = TRUE
    /\ pc = "done" => LaunchIdx = {Len(Calls)}
    /\ pc # "done" => LaunchIdx = {}

C4_Witness ==
    /\ pc = "done"
    /\ args.dryrun
    /\ Calls[Len(Calls)].op = "dryrun"
    /\ \A i \in DOMAIN Calls : Calls[i].op # "run"

(* C5: once built, the plugin list starts with a PerfEnvPlugin with vboost
   enabled, whose NCCL chunk size is 2097152 when pp_size > 1 and unset (None)
   when pp_size <= 1. *)
C5_ChunkSizeIffPipeline ==
    plugins # <<>> =>
        /\ plugins[1].plugin = "PerfEnvPlugin"
        /\ plugins[1].enable_vboost = TRUE
        /\ (plugins[1].nccl_pp_comm_chunksize = <<2097152>>) <=> (layout.pp_size > 1)
        /\ (plugins[1].nccl_pp_comm_chunksize = <<>>) <=> (layout.pp_size <= 1)

C5_Witness ==
    /\ plugins # <<>>
    /\ layout.pp_size = 1
    /\ plugins[1].nccl_pp_comm_chunksize = <<>>

(* C6: the stages completed so far are always an initial part of
   PARSED, VALIDATED, LAYOUT_RESOLVED, RECIPE_BUILT, EXECUTOR_BUILT,
   SUBMITTED or DRYRUN_ONLY; a finished invocation has completed all six;
   a failed one has called neither exp.run nor exp.dryrun and has not
   completed the last stage. *)
C6_StagesInOrder ==
    /\ IsPrefix(stages, StageOrderRun) \/ IsPrefix(stages, StageOrderDry)
    /\ pc = "done" => Len(stages) = 6
    /\ pc = "failed" =>
          /\ Len(stages) < 6
          /\ LaunchIdx = {}
          /\ err # None
    /\ pc # "failed" => err = None

C6_Witness ==
    /\ pc = "failed"
    /\ stages = <<"PARSED", "VALIDATED", "LAYOUT_RESOLVED", "RECIPE_BUILT",
                  "EXECUTOR_BUILT">>
    /\ Len(Calls) = 1
    /\ IsImportAdd(Calls[1])

(* C7: once built, the experiment name is the concatenation of
   args.finetuning, the script's file stem, args.compute_dtype and the
   resolved num_nodes, tp, pp, cp, vp, mbs, gbs, and of nothing else; the
   Experiment and the training job carry that same name. *)
C7_NameIsFunctionOfInputs ==
    /\ exp_name # <<>> =>
          exp_name =
             <<args.finetuning, "_", "finetune_llama31_405b", "_",
               args.compute_dtype, "_", layout.num_nodes, "nodes_tp",
               layout.tp_size, "_pp", layout.pp_size, "_cp", layout.cp_size,
               "_vp", layout.vp_size, "_", layout.mbs, "mbs_", layout.gbs, "gbs">>
    /\ exp.opened => exp.name = exp_name
    /\ \A i \in DOMAIN Calls :
          IsTrainAdd(Calls[i]) => Calls[i].name = exp.name

C7_Witness ==
    /\ pc = "done"
    /\ args.compute_dtype = "FP8"
    /\ exp.name = exp_name
    /\ Calls[2].name = exp_name
    /\ layout.num_nodes = 2
    /\ exp_name[7] = 2

(* C8: once the recipe is built its data tokenizer is the one made from
   HF_MODEL_URI; the packed-metadata check, when made, was given the data
   module with that tokenizer already set, and is made exactly for the
   SquadDataModule; force_redownload is true when the data module is
   SquadDataModule and the check found no metadata, and otherwise is what the
   base recipe had. *)
C8_DataOverrides ==
    Reached("RECIPE_BUILT") =>
        /\ recipe.data.tokenizer = <<"hf_tokenizer", HF_MODEL_URI>>
        /\ recipe.data.cls = baseRecipe.data.cls
        /\ packCheck.called <=> (recipe.data.cls = "SquadDataModule")
        /\ packCheck.called =>
              packCheck.data.tokenizer = <<"hf_tokenizer", HF_MODEL_URI>>
        /\ IF recipe.data.cls = "SquadDataModule" /\ ~packCheck.result
           THEN recipe.data.force_redownload = TRUE
           ELSE recipe.data.force_redownload = baseRecipe.data.force_redownload

C8_Witness ==
    /\ Reached("RECIPE_BUILT")
    /\ recipe.data.cls = "SquadDataModule"
    /\ packCheck.called
    /\ ~packCheck.result
    /\ baseRecipe.data.force_redownload = FALSE
    /\ recipe.data.force_redownload = TRUE

(* C9: once built, the plugin list is the PerfEnvPlugin followed by
   NsysPlugin(start_step=5, end_step=6) when enable_nsys is set (length 2),
   and the PerfEnvPlugin alone otherwise (length 1); the training job is
   added with that list. *)
C9_NsysAppendedIffRequested ==
    /\ plugins # <<>> =>
          /\ plugins[1].plugin = "PerfEnvPlugin"
          /\ IF args.enable_nsys
             THEN /\ Len(plugins) = 2
                  /\ plugins[2] =
                        [plugin |-> "NsysPlugin", start_step |-> 5, end_step |-> 6]
             ELSE Len(plugins) = 1
    /\ \A i \in DOMAIN Calls :
          IsTrainAdd(Calls[i]) => (Calls[i].plugins = plugins /\ plugins # <<>>)

C9_Witness ==
    /\ pc = "done"
    /\ args.enable_nsys
    /\ Len(Calls[2].plugins) = 2
    /\ Calls[2].plugins[2].plugin = "NsysPlugin"

(* C10: the resolved layout is used consistently: recipe, executor and
   experiment name carry the same num_nodes; recipe and executor carry
   args.gpus_per_node; the tp/pp/cp/vp/mbs/gbs of the name are those applied
   to the recipe; the chunk-size override follows the pp_size applied to the
   recipe; "sft" reaches the recipe as "none" while the name keeps
   args.finetuning. *)
C10_LayoutUsedConsistently ==
    /\ Reached("RECIPE_BUILT") =>
          /\ recipe.perf.num_nodes = layout.num_nodes
          /\ recipe.perf.gpus_per_node = args.gpus_per_node
          /\ recipe.perf.tp_size = layout.tp_size
          /\ recipe.perf.pp_size = layout.pp_size
          /\ recipe.perf.cp_size = layout.cp_size
          /\ recipe.perf.vp_size = layout.vp_size
          /\ recipe.perf.ep_size = layout.ep_size
          /\ recipe.perf.mbs = layout.mbs
          /\ recipe.perf.gbs = layout.gbs
          /\ recipe.peft_scheme = recipe.perf.scheme
          /\ (args.finetuning = "sft") => (recipe.peft_scheme = "none")
          /\ (args.finetuning # "sft") => (recipe.peft_scheme = args.finetuning)
    /\ exp_name # <<>> =>
          /\ exp_name[1] = args.finetuning
          /\ exp_name[7] = recipe.perf.num_nodes
          /\ exp_name[9] = recipe.perf.tp_size
          /\ exp_name[11] = recipe.perf.pp_size
          /\ exp_name[13] = recipe.perf.cp_size
          /\ exp_name[15] = recipe.perf.vp_size
          /\ exp_name[17] = recipe.perf.mbs
          /\ exp_name[19] = recipe.perf.gbs
    /\ Reached("EXECUTOR_BUILT") =>
          /\ executor.num_nodes = recipe.perf.num_nodes
          /\ executor.gpus_per_node = recipe.perf.gpus_per_node
    /\ plugins # <<>> =>
          (plugins[1].nccl_pp_comm_chunksize # <<>>) <=> (recipe.perf.pp_size > 1)

C10_Witness ==
    /\ pc = "done"
    /\ args.finetuning = "sft"
    /\ recipe.peft_scheme = "none"
    /\ exp_name[1] = "sft"
    /\ layout.tp_size = 8
    /\ layout.pp_size = 2
    /\ recipe.perf.pp_size = 2
    /\ executor.num_nodes = 2
    /\ exp_name[7] = 2

====
